---- MODULE Spec2Model ----
(***************************************************************************)
(* NFL power rating engine (src/engine/power_ratings.py).                  *)
(*                                                                         *)
(* Numbers.  The engine works on floats; the model works on integers in    *)
(* fixed units and rounds every quotient to the nearest unit:              *)
(*   EPA per play, turnovers, plays : 1/10000      (Scale)                 *)
(*   power ratings, spreads, edges, results : 1/100 point (cents)          *)
(* An optional value (None, NaN) is the empty sequence, a present value v  *)
(* is <<v>>.                                                               *)
(*                                                                         *)
(* qb_adjuster is the QBAdjuster of src/engine/qb_adjustment.py that       *)
(* backtest_qb.py builds next to the engine; None until its profiles are   *)
(* built.                                                                  *)
(***************************************************************************)
EXTENDS Integers, Sequences, FiniteSets, TLC

VARIABLES games_df, ratings, power_ratings, league_averages, qb_adjuster, last, nops

vars == <<games_df, ratings, power_ratings, league_averages, qb_adjuster, last, nops>>

None == <<>>
Some(x) == <<x>>
NaN == <<>>

(* EPA fixed-point unit: 1.0 is Scale. *)
Scale == 10000
(* One point is 100 cents. *)
Cents == 100

Abs(x) == IF x < 0 THEN -x ELSE x
Max(a, b) == IF a >= b THEN a ELSE b

(* a / b for b > 0, rounded to the nearest integer, ties to even (IEEE     *)
(* division and Python's round()).                                        *)
round_div(a, b) ==
  LET q == a \div b
      r == a % b
  IN  IF 2 * r < b THEN q
      ELSE IF 2 * r > b THEN q + 1
      ELSE IF q % 2 = 0 THEN q ELSE q + 1

RECURSIVE SumSeq(_)
SumSeq(s) == IF s = <<>> THEN 0 ELSE s[1] + SumSeq(Tail(s))

RECURSIVE Pow(_, _)
Pow(b, e) == IF e = 0 THEN 1 ELSE b * Pow(b, e - 1)

(* np.mean of a non-empty sequence of integers. *)
mean(s) == round_div(SumSeq(s), Len(s))

(***************************************************************************)
(* CONFIG (src/engine/config.py)                                           *)
(***************************************************************************)
(* recency_decay 0.92 = 23/25 = recency_decay_num / recency_decay_den *)
recency_decay_num == 23
recency_decay_den == 25
(* home_field_advantage 2.5 points, in cents *)
home_field_advantage == 250
opponent_adj_iterations == 10
prior_full_weight_week == 1
prior_zero_weight_week == 9
(* turnover_regression_factor 0.50, in percent *)
turnover_regression_factor == 50
(* component weights, in percent *)
weight_off_epa == 35
weight_def_epa == 35
weight_turnover_adj == 20
weight_special_teams == 10
(* min_edge_threshold 5.0 points, in cents *)
min_edge_threshold == 500
(* prior_regression 0.67, in percent *)
prior_regression == 67
plays_per_game == 65
(* 3.5 points per net turnover, in tenths *)
turnover_points_x10 == 35

(***************************************************************************)
(* The input table (one row per game), as handed to load_data.            *)
(* EPA columns in 1/Scale, result in points, spread_line in cents (a      *)
(* multiple of 50: data_loader.py rounds lines to half points) or NaN.    *)
(***************************************************************************)
Row(id, s, w, h, a, res, line, hoff, hdef, aoff, adef, hto, ato, hst, ast, hpl, apl) ==
  [game_id |-> id, season |-> s, week |-> w, home_team |-> h, away_team |-> a,
   result |-> res, spread_line |-> line,
   home_off_epa_per_play |-> hoff, home_def_epa_per_play |-> hdef,
   away_off_epa_per_play |-> aoff, away_def_epa_per_play |-> adef,
   home_turnovers |-> hto, away_turnovers |-> ato,
   home_st_epa_per_play |-> hst, away_st_epa_per_play |-> ast,
   home_plays |-> hpl, away_plays |-> apl]

(* Season 1: team E never hosts a game, and team D plays (and hosts) its  *)
(* first game in week 3.  Season 2: team E plays its first game in week 2 *)
(* with no recorded plays.  The rows are not in (season, week) order.     *)
InputGames ==
  << Row(21, 2, 1, "B", "A",   6, Some(600),   -400,   900,  1500,  -600, 2, 0, -100,  200, 60, 66),
     Row(22, 2, 1, "C", "D",  -3, Some(-100),  1800,  -900,  -800,  1600, 0, 2,  300, -200, 68, 59),
     Row(11, 1, 1, "A", "B",   7, Some(-200),  1200,  -500,  -300,   800, 1, 2,  100, -100, 64, 62),
     Row(12, 1, 1, "C", "E",   3, Some(300),    600,  -200,   100,   400, 1, 1,    0,  100, 66, 60),
     Row(13, 1, 2, "B", "C",  -4, Some(350),   -200,   700,   900,  -400, 2, 0, -200,  300, 61, 67),
     Row(14, 1, 2, "A", "E",  10, Some(300),   1500,  -800,  -600,  1100, 0, 3,  200, -300, 65, 58),
     Row(15, 1, 3, "D", "A", -10, Some(-300),  -900,  1300,  1400,  -700, 3, 1, -100,  100, 57, 70),
     Row(16, 1, 3, "C", "B",  -3, Some(-300),   800,  -300,  -100,   500, 1, 1,  100,    0, 63, 63),
     Row(23, 2, 2, "A", "C",   3, NaN,          700,  -100,   500,   -50, 1, 1,  150,   50, 64, 65),
     Row(24, 2, 2, "E", "B",  -7, Some(-250),   200,   300,   250,   150, 1, 2,  -50,    0,  0, 61),
     Row(25, 2, 3, "D", "B",  12, Some(900),    300,   100,   200,   250, 1, 1,    0,  -50, 62, 61),
     Row(26, 2, 3, "A", "E",  10, Some(200),    -50,   600,   950,  -350, 2, 0, -150,  250, 60, 55) >>

(***************************************************************************)
(* load_data: sort_values(['season', 'week']), a stable sort.              *)
(***************************************************************************)
SeasonWeekLE(r1, r2) ==
  \/ r1.season < r2.season
  \/ r1.season = r2.season /\ r1.week <= r2.week

WeekLE(r1, r2) == r1.week <= r2.week

(* s with row r inserted after the last row that is <= r *)
RECURSIVE InsertRow(_, _, _)
InsertRow(s, r, by) ==
  IF s = <<>> THEN <<r>>
  ELSE LET l == s[Len(s)]
           le == IF by = "week" THEN WeekLE(l, r) ELSE SeasonWeekLE(l, r)
       IN  IF le THEN Append(s, r)
           ELSE Append(InsertRow(SubSeq(s, 1, Len(s) - 1), r, by), l)

RECURSIVE sort_values(_, _)
sort_values(s, by) ==
  IF s = <<>> THEN <<>>
  ELSE InsertRow(sort_values(SubSeq(s, 1, Len(s) - 1), by), s[Len(s)], by)

(* df[mask]: the rows of df that satisfy Keep, in order *)
SelectRows(df, Keep(_)) == SelectSeq(df, Keep)

(* the set of values of a sequence *)
Range(s) == {s[i] : i \in DOMAIN s}

(***************************************************************************)
(* _get_team_games: a team's games of a season through a week, from the   *)
(* team's perspective, ordered by week.                                    *)
(***************************************************************************)
home_record(g, team) ==
  [week |-> g.week, team |-> team, opponent |-> g.away_team, is_home |-> TRUE,
   off_epa |-> g.home_off_epa_per_play, def_epa |-> g.home_def_epa_per_play,
   turnovers |-> g.home_turnovers, opp_turnovers |-> g.away_turnovers,
   st_epa |-> g.home_st_epa_per_play, plays |-> g.home_plays,
   game_id |-> g.game_id]

(* variant of the code: the away record takes the opponent's turnovers    *)
(* from the away side, as the home record does                            *)
away_record_opponent_side_kept(g, team) ==
  [week |-> g.week, team |-> team, opponent |-> g.home_team, is_home |-> FALSE,
   off_epa |-> g.away_off_epa_per_play, def_epa |-> g.away_def_epa_per_play,
   turnovers |-> g.away_turnovers, opp_turnovers |-> g.away_turnovers,
   st_epa |-> g.away_st_epa_per_play, plays |-> g.away_plays,
   game_id |-> g.game_id]

away_record(g, team) ==
  [week |-> g.week, team |-> team, opponent |-> g.home_team, is_home |-> FALSE,
   off_epa |-> g.away_off_epa_per_play, def_epa |-> g.away_def_epa_per_play,
   turnovers |-> g.away_turnovers, opp_turnovers |-> g.home_turnovers,
   st_epa |-> g.away_st_epa_per_play, plays |-> g.away_plays,
   game_id |-> g.game_id]

MapSeq(s, F(_)) == [i \in DOMAIN s |-> F(s[i])]

(* variant of the code: rows without a market line are dropped *)
week_mask_with_line(g, season, through_week) ==
  g.season = season /\ g.week <= through_week /\ g.spread_line # NaN

week_mask(g, season, through_week) == g.season = season /\ g.week <= through_week

(* variant of the code: the games away are left out *)
_get_team_games_home_only(df, team, season, through_week) ==
  LET home == SelectRows(df, LAMBDA g : week_mask(g, season, through_week) /\ g.home_team = team)
  IN  sort_values(MapSeq(home, LAMBDA g : home_record(g, team)), "week")

_get_team_games(df, team, season, through_week) ==
  LET home == SelectRows(df, LAMBDA g : week_mask(g, season, through_week) /\ g.home_team = team)
      away == SelectRows(df, LAMBDA g : week_mask(g, season, through_week) /\ g.away_team = team)
      home_records == MapSeq(home, LAMBDA g : home_record(g, team))
      away_records == MapSeq(away, LAMBDA g : away_record(g, team))
  IN  sort_values(home_records \o away_records, "week")

(***************************************************************************)
(* _apply_recency_weights: decay ** weeks_ago per game.  The weights are  *)
(* returned times recency_decay_den ** (largest weeks_ago), as integers;  *)
(* np.average does not depend on a common factor of the weights.          *)
(***************************************************************************)
weeks_ago(game, current_week) == current_week - game.week

RECURSIVE MaxOf(_)
MaxOf(s) == IF Len(s) = 1 THEN s[1] ELSE Max(s[1], MaxOf(Tail(s)))

(* variant of the code: every game weighs the same *)
_apply_recency_weights_uniform(games_series, current_week) ==
  [i \in DOMAIN games_series |-> 1]

_apply_recency_weights(games_series, current_week) ==
  LET ago == [i \in DOMAIN games_series |-> weeks_ago(games_series[i], current_week)]
      k == MaxOf(ago)
  IN  [i \in DOMAIN games_series |->
         Pow(recency_decay_num, ago[i]) * Pow(recency_decay_den, k - ago[i])]

(* np.average(values, weights=weights) *)
average(values, weights) ==
  round_div(SumSeq([i \in DOMAIN values |-> values[i] * weights[i]]), SumSeq(weights))

(* Series.mean(): NaN for an empty series *)
nan_mean(s) == IF s = <<>> THEN NaN ELSE Some(mean(s))

(* (a.mean() + b.mean()) / 2 for two columns of the same rows *)
mean_of_two_means(a, b) ==
  IF a = <<>> THEN NaN ELSE Some(round_div(SumSeq(a) + SumSeq(b), 2 * Len(a)))

(***************************************************************************)
(* _compute_league_averages: the entry stored at (season, through_week).  *)
(***************************************************************************)
_compute_league_averages(df, season, through_week) ==
  LET data == SelectRows(df, LAMBDA g : week_mask(g, season, through_week))
  IN  [avg_turnovers_per_game |->
         mean_of_two_means(MapSeq(data, LAMBDA g : g.home_turnovers * Scale),
                           MapSeq(data, LAMBDA g : g.away_turnovers * Scale)),
       avg_off_epa |->
         mean_of_two_means(MapSeq(data, LAMBDA g : g.home_off_epa_per_play),
                           MapSeq(data, LAMBDA g : g.away_off_epa_per_play)),
       avg_def_epa |->
         mean_of_two_means(MapSeq(data, LAMBDA g : g.home_def_epa_per_play),
                           MapSeq(data, LAMBDA g : g.away_def_epa_per_play))]

(***************************************************************************)
(* _compute_raw_ratings                                                    *)
(***************************************************************************)
(* variant of the code: the home and the away teams of the season's games *)
season_teams_home_and_away(df, season) ==
  {df[i].home_team : i \in {j \in DOMAIN df : df[j].season = season}}
    \cup {df[i].away_team : i \in {j \in DOMAIN df : df[j].season = season}}

(* the teams of a snapshot: the home teams of the season's games *)
season_teams(df, season) ==
  {df[i].home_team : i \in {j \in DOMAIN df : df[j].season = season}}

zero_rating ==
  [off_epa |-> 0, def_epa |-> 0, turnover_adj |-> 0, st_epa |-> 0,
   games_played |-> 0, opponents |-> <<>>]

(* actual * (1 - reg) + league_avg * reg *)
regress(actual, league_avg) ==
  round_div(actual * (100 - turnover_regression_factor)
            + league_avg * turnover_regression_factor, 100)

(* variant of the code: own turnovers minus the opponents' *)
turnover_adjustment_own_minus_opponents(regressed_to, regressed_opp_to, plays) ==
  IF SumSeq(plays) > 0
  THEN round_div((regressed_to - regressed_opp_to) * turnover_points_x10 * Len(plays),
                 10 * SumSeq(plays))
  ELSE 0

(* turnover_pts / avg_plays if avg_plays > 0 else 0, with                 *)
(* turnover_pts = (regressed_opp_to - regressed_to) * 3.5 and             *)
(* avg_plays = sum(plays) / len(plays)                                    *)
turnover_adjustment(regressed_to, regressed_opp_to, plays) ==
  IF SumSeq(plays) > 0
  THEN round_div((regressed_opp_to - regressed_to) * turnover_points_x10 * Len(plays),
                 10 * SumSeq(plays))
  ELSE 0

team_raw_rating(games, through_week, league_avg) ==
  IF Len(games) = 0 THEN zero_rating
  ELSE
    LET weights == _apply_recency_weights(games, through_week)
        actual_to == average(MapSeq(games, LAMBDA g : g.turnovers * Scale), weights)
        actual_opp_to == average(MapSeq(games, LAMBDA g : g.opp_turnovers * Scale), weights)
        lg == league_avg.avg_turnovers_per_game[1]
    IN  [off_epa |-> average(MapSeq(games, LAMBDA g : g.off_epa), weights),
         def_epa |-> average(MapSeq(games, LAMBDA g : g.def_epa), weights),
         turnover_adj |-> turnover_adjustment(regress(actual_to, lg),
                                              regress(actual_opp_to, lg),
                                              MapSeq(games, LAMBDA g : g.plays)),
         st_epa |-> average(MapSeq(games, LAMBDA g : g.st_epa), weights),
         games_played |-> Len(games),
         opponents |-> MapSeq(games, LAMBDA g : g.opponent)]

_compute_raw_ratings(df, season, through_week) ==
  LET league_avg == _compute_league_averages(df, season, through_week)
  IN  [team \in season_teams(df, season) |->
         team_raw_rating(_get_team_games(df, team, season, through_week),
                         through_week, league_avg)]

(***************************************************************************)
(* _opponent_adjust: a fixed number of iterations, each reading the       *)
(* previous iteration's ratings.                                           *)
(***************************************************************************)
(* np.mean(xs) if xs else 0 *)
mean_or_zero(xs) == IF xs = <<>> THEN 0 ELSE mean(xs)

(* variant of the code: an opponent that is not rated counts as 0 *)
opponent_values_absent_as_zero(adjusted, opponents, component) ==
  MapSeq(opponents,
         LAMBDA opp : IF opp \in DOMAIN adjusted THEN adjusted[opp][component] ELSE 0)

(* [adjusted[opp][component] for opp in opponents if opp in adjusted] *)
opponent_values(adjusted, opponents, component) ==
  MapSeq(SelectSeq(opponents, LAMBDA opp : opp \in DOMAIN adjusted),
         LAMBDA opp : adjusted[opp][component])

(* variant of the code: a team without opponents is adjusted against the  *)
(* mean of all rated teams                                                 *)
adjust_team_league_mean(raw_ratings, adjusted, team) ==
  LET raw == raw_ratings[team]
      everyone == CHOOSE s \in [1..Cardinality(DOMAIN adjusted) -> DOMAIN adjusted] :
                    Range(s) = DOMAIN adjusted
      against == IF Len(raw.opponents) = 0 THEN everyone ELSE raw.opponents
      opp_def == opponent_values(adjusted, against, "def_epa")
      opp_off == opponent_values(adjusted, against, "off_epa")
  IN  [off_epa |-> raw.off_epa - mean_or_zero(opp_def),
       def_epa |-> raw.def_epa + mean_or_zero(opp_off),
       turnover_adj |-> raw.turnover_adj,
       st_epa |-> raw.st_epa,
       games_played |-> raw.games_played,
       opponents |-> raw.opponents]

(* the body of the loop over the teams: new_adjusted[team] *)
adjust_team(raw_ratings, adjusted, team) ==
  LET raw == raw_ratings[team]
      opp_def == opponent_values(adjusted, raw.opponents, "def_epa")
      opp_off == opponent_values(adjusted, raw.opponents, "off_epa")
  IN  IF Len(raw.opponents) = 0 THEN raw
      ELSE [off_epa |-> raw.off_epa - mean_or_zero(opp_def),
            def_epa |-> raw.def_epa + mean_or_zero(opp_off),
            turnover_adj |-> raw.turnover_adj,
            st_epa |-> raw.st_epa,
            games_played |-> raw.games_played,
            opponents |-> raw.opponents]

adjust_step(raw_ratings, adjusted) ==
  [team \in DOMAIN raw_ratings |-> adjust_team(raw_ratings, adjusted, team)]

(* The loop over the teams as the code runs it, team after team in the    *)
(* order of raw_ratings' keys (the iteration order of a set of strings),  *)
(* filling new_adjusted and reading adjusted.                             *)
(* variant of the code: a team's new rating is written into the ratings   *)
(* the next teams read                                                    *)
RECURSIVE adjust_teams_in_place(_, _, _, _)
adjust_teams_in_place(raw_ratings, adjusted, new_adjusted, teams) ==
  IF teams = <<>> THEN new_adjusted
  ELSE LET current == [t \in DOMAIN adjusted |->
                         IF t \in DOMAIN new_adjusted THEN new_adjusted[t] ELSE adjusted[t]]
       IN  adjust_teams_in_place(raw_ratings, adjusted,
             [t \in DOMAIN new_adjusted \cup {teams[1]} |->
                IF t = teams[1] THEN adjust_team(raw_ratings, current, teams[1])
                ELSE new_adjusted[t]],
             Tail(teams))

RECURSIVE adjust_teams(_, _, _, _)
adjust_teams(raw_ratings, adjusted, new_adjusted, teams) ==
  IF teams = <<>> THEN new_adjusted
  ELSE adjust_teams(raw_ratings, adjusted,
         [t \in DOMAIN new_adjusted \cup {teams[1]} |->
            IF t = teams[1] THEN adjust_team(raw_ratings, adjusted, teams[1])
            ELSE new_adjusted[t]],
         Tail(teams))

(* variant of the code: adjusted is the raw rating map itself, not a copy, *)
(* so what an iteration writes is the raw rating map of the next           *)
RECURSIVE adjust_iterates_on_raw(_, _, _, _)
adjust_iterates_on_raw(raw_ratings, teams, adjusted, iterations) ==
  IF iterations = 0 THEN <<adjusted>>
  ELSE LET written == adjust_teams(raw_ratings, adjusted, <<>>, teams)
       IN  <<adjusted>> \o adjust_iterates_on_raw(written, teams, written, iterations - 1)

(* the ratings before the first and after each iteration, the teams taken *)
(* in the order given                                                     *)
RECURSIVE adjust_iterates(_, _, _, _)
adjust_iterates(raw_ratings, teams, adjusted, iterations) ==
  IF iterations = 0 THEN <<adjusted>>
  ELSE <<adjusted>> \o adjust_iterates(raw_ratings, teams,
                         adjust_teams(raw_ratings, adjusted, <<>>, teams),
                         iterations - 1)

RECURSIVE adjust_iterate(_, _, _)
adjust_iterate(raw_ratings, adjusted, iterations) ==
  IF iterations = 0 THEN adjusted
  ELSE adjust_iterate(raw_ratings, adjust_step(raw_ratings, adjusted), iterations - 1)

_opponent_adjust(raw_ratings) ==
  adjust_iterate(raw_ratings, raw_ratings, opponent_adj_iterations)

(***************************************************************************)
(* _blend_preseason_prior.  prior_weight = max(0, (w0 - week) / (w0 - w1)) *)
(* is the fraction prior_weight_num(week) / prior_weight_den.              *)
(***************************************************************************)
(* max(0, (w0 - week) / (w0 - w1)) as a fraction with a positive denominator *)
prior_weight(w1, w0, week) ==
  [num |-> IF w0 > w1 THEN Max(0, w0 - week) ELSE Max(0, week - w0),
   den |-> Abs(w0 - w1)]

(* 1 - prior_weight *)
current_weight(w1, w0, week) ==
  [num |-> prior_weight(w1, w0, week).den - prior_weight(w1, w0, week).num,
   den |-> prior_weight(w1, w0, week).den]

prior_weight_den ==
  prior_weight(prior_full_weight_week, prior_zero_weight_week, prior_zero_weight_week).den

prior_weight_num(week) ==
  prior_weight(prior_full_weight_week, prior_zero_weight_week, week).num

(* variant of the code: the prior is blended without the regression *)
blend_component_unregressed(current, prior, week) ==
  round_div((prior_weight_den - prior_weight_num(week)) * current
            + prior_weight_num(week) * prior,
            prior_weight_den)

(* current_weight * current + prior_weight * prior * prior_regression *)
blend_component(current, prior, week) ==
  round_div((prior_weight_den - prior_weight_num(week)) * current * 100
            + prior_weight_num(week) * prior * prior_regression,
            prior_weight_den * 100)

(* variant of the code: a team absent from the prior is blended with a    *)
(* zero prior instead of keeping its current rating                       *)
_blend_preseason_prior_absent_as_zero(current_ratings, prior_ratings, week) ==
  IF week >= prior_zero_weight_week \/ prior_ratings = None THEN current_ratings
  ELSE
    LET pr == prior_ratings[1]
    IN  [team \in DOMAIN current_ratings |->
           LET prior == IF team \in DOMAIN pr THEN pr[team] ELSE zero_rating
               current == current_ratings[team]
           IN  [off_epa |-> blend_component(current.off_epa, prior.off_epa, week),
                def_epa |-> blend_component(current.def_epa, prior.def_epa, week),
                turnover_adj |-> blend_component(current.turnover_adj, prior.turnover_adj, week),
                st_epa |-> blend_component(current.st_epa, prior.st_epa, week),
                games_played |-> current.games_played,
                opponents |-> current.opponents]]

_blend_preseason_prior(current_ratings, prior_ratings, week) ==
  IF week >= prior_zero_weight_week \/ prior_ratings = None THEN current_ratings
  ELSE
    LET pr == prior_ratings[1]
    IN  [team \in DOMAIN current_ratings |->
           IF team \in DOMAIN pr
           THEN LET prior == pr[team]
                    current == current_ratings[team]
                IN  [off_epa |-> blend_component(current.off_epa, prior.off_epa, week),
                     def_epa |-> blend_component(current.def_epa, prior.def_epa, week),
                     turnover_adj |-> blend_component(current.turnover_adj, prior.turnover_adj, week),
                     st_epa |-> blend_component(current.st_epa, prior.st_epa, week),
                     games_played |-> current.games_played,
                     opponents |-> current.opponents]
           ELSE current_ratings[team]]

(***************************************************************************)
(* _compute_power_rating: round(power, 2), in cents.                       *)
(***************************************************************************)
_compute_power_rating(team_ratings) ==
  round_div((weight_off_epa * team_ratings.off_epa
             - weight_def_epa * team_ratings.def_epa
             + weight_turnover_adj * team_ratings.turnover_adj
             + weight_special_teams * team_ratings.st_epa) * plays_per_game,
            Scale)

RECURSIVE SumOver(_, _)
SumOver(f, S) ==
  IF S = {} THEN 0
  ELSE LET x == CHOOSE y \in S : TRUE IN f[x] + SumOver(f, S \ {x})

(* variant of the code: the ratings are stored without subtracting avg *)
center_skipped(team_powers) == team_powers

(* {team: round(p - avg, 2)} with avg = np.mean(list(team_powers.values())) *)
center(team_powers) ==
  LET n == Cardinality(DOMAIN team_powers)
      total == SumOver(team_powers, DOMAIN team_powers)
  IN  [team \in DOMAIN team_powers |-> round_div(n * team_powers[team] - total, n)]

(***************************************************************************)
(* compute_ratings, as a function of the table and the ratings cache:     *)
(* the blended snapshot, the power ratings, and the week of the prior     *)
(* snapshot it read (0 when it read none).                                 *)
(***************************************************************************)
MaxSet(S) == CHOOSE x \in S : \A y \in S : y <= x

prior_week(rt, season) ==
  IF season - 1 \in DOMAIN rt THEN MaxSet(DOMAIN rt[season - 1]) ELSE 0

prior_snapshot(rt, season) ==
  IF season - 1 \in DOMAIN rt
  THEN Some(rt[season - 1][MaxSet(DOMAIN rt[season - 1])])
  ELSE None

(* The table load_data leaves in games_df, and its opponent-adjusted      *)
(* ratings per (season, through_week), each evaluated once.               *)
LoadedGames == sort_values(InputGames, "season_week")

AdjustedOfLoaded ==
  [key \in {<<g.season, w>> : g \in Range(InputGames), w \in {h.week : h \in Range(InputGames)}} |->
     _opponent_adjust(_compute_raw_ratings(LoadedGames, key[1], key[2]))]

adjusted_ratings(df, season, through_week) ==
  IF df = LoadedGames /\ <<season, through_week>> \in DOMAIN AdjustedOfLoaded
  THEN AdjustedOfLoaded[<<season, through_week>>]
  ELSE _opponent_adjust(_compute_raw_ratings(df, season, through_week))

computed(df, rt, season, through_week) ==
  LET adjusted == adjusted_ratings(df, season, through_week)
      blended == _blend_preseason_prior(adjusted, prior_snapshot(rt, season), through_week)
  IN  [blended |-> blended,
       team_powers |-> center([team \in DOMAIN blended |-> _compute_power_rating(blended[team])]),
       prior_week |-> prior_week(rt, season)]

(***************************************************************************)
(* The engine's dictionaries.  A dict is a function; {} is <<>>.           *)
(* An engine state e is [ratings, power_ratings, league_averages]; a call  *)
(* returns the engine state it leaves, its return value, and a log of     *)
(* what it did: the keys it wrote (in order) and, per compute_ratings     *)
(* call, <<season, through_week, prior week read>>.                        *)
(***************************************************************************)
(* Sequencing: Then(v, F) is F applied to the value of v, v evaluated once. *)
Then(v, F(_)) == CHOOSE r \in {F(x) : x \in {v}} : TRUE

Put(d, k, v) == [x \in DOMAIN d \cup {k} |-> IF x = k THEN v ELSE d[x]]

(* variant of the code: d[season] = {week: v}, a fresh dict per write *)
PutNested_fresh_season(d, season, week, v) ==
  Put(d, season, Put(<<>>, week, v))

(* d[season][week] = v, creating d[season] = {} when absent *)
PutNested(d, season, week, v) ==
  Put(d, season, Put(IF season \in DOMAIN d THEN d[season] ELSE <<>>, week, v))

HasKey(d, season, week) == season \in DOMAIN d /\ week \in DOMAIN d[season]

compute_ratings(df, e, season, through_week) ==
  Then(computed(df, e.ratings, season, through_week),
    LAMBDA c :
      [e |-> [ratings |-> PutNested(e.ratings, season, through_week, c.blended),
              power_ratings |-> PutNested(e.power_ratings, season, through_week, c.team_powers),
              league_averages |-> Put(e.league_averages, <<season, through_week>>,
                                      _compute_league_averages(df, season, through_week))],
       ret |-> c.team_powers,
       writes |-> << <<season, through_week>> >>,
       priors |-> << <<season, through_week, c.prior_week>> >>])

(* variant of the code: int(x * 2) / 2, rounding down *)
round_half_point_floor(x) == ((x * 2) \div Cents) * (Cents \div 2)

(* round(x * 2) / 2 on cents *)
round_half_point(x) == round_div(x * 2, Cents) * (Cents \div 2)

predict_spread(df, e, home_team, away_team, season, through_week) ==
  Then(IF HasKey(e.power_ratings, season, through_week)
       THEN [e |-> e, writes |-> <<>>, priors |-> <<>>]
       ELSE compute_ratings(df, e, season, through_week),
    LAMBDA c :
      LET rt == c.e.power_ratings[season][through_week]
      IN  [e |-> c.e,
           ret |-> IF home_team \notin DOMAIN rt \/ away_team \notin DOMAIN rt THEN None
                   ELSE Some(round_half_point(rt[home_team] - rt[away_team]
                                              + home_field_advantage)),
           writes |-> c.writes,
           priors |-> c.priors])

(***************************************************************************)
(* find_edges: the loop body for one game of the week.  The result is     *)
(* None when the game is skipped or not flagged, else the edge record.    *)
(***************************************************************************)
(* round(x, 1) on cents *)
round_1(x) == round_div(x, 10) * 10

(* variant of the code: an edge equal to the threshold is not flagged *)
is_flagged_strict(edge) == Abs(edge) > min_edge_threshold

(* abs(edge) >= self.config['min_edge_threshold'] *)
is_flagged(edge) == Abs(edge) >= min_edge_threshold

(* variant of the code: no push, the bet is graded by home_covered alone *)
ats_won_no_push(result, market, edge) ==
  IF edge > 0 THEN Some(result * Cents > market) ELSE Some(~(result * Cents > market))

(* won: True, False or None (push) *)
ats_won(result, market, edge) ==
  LET home_covered == result * Cents > market
  IN  IF result * Cents = market THEN None
      ELSE IF edge > 0 THEN Some(home_covered)
      ELSE Some(~home_covered)

edge_record(game, week, predicted) ==
  LET market == game.spread_line
  IN  IF predicted = None \/ market = NaN THEN None
      ELSE
        LET edge == predicted[1] - market[1]
        IN  IF is_flagged(edge)
            THEN Some([game_id |-> game.game_id,
                       week |-> week,
                       home_team |-> game.home_team,
                       away_team |-> game.away_team,
                       model_spread |-> predicted[1],
                       market_spread |-> market[1],
                       edge |-> round_1(Abs(edge)),
                       bet_side |-> IF edge > 0 THEN game.home_team ELSE game.away_team,
                       actual_result |-> game.result,
                       ats_won |-> ats_won(game.result, market[1], edge)])
            ELSE None

(* variant of the code: the ratings run through the target week itself *)
ratings_week_same(week) == Max(1, week)

ratings_week_of(week) == Max(1, week - 1)

(* the games of the week, in table order, each with its prediction *)
RECURSIVE edges_loop(_, _, _, _, _)
edges_loop(df, e, week_games, season, week) ==
  IF week_games = <<>> THEN [e |-> e, ret |-> <<>>, writes |-> <<>>, priors |-> <<>>]
  ELSE
    Then(predict_spread(df, e, week_games[1].home_team, week_games[1].away_team,
                        season, ratings_week_of(week)),
      LAMBDA p :
        Then(edges_loop(df, p.e, Tail(week_games), season, week),
          LAMBDA rest :
            [e |-> rest.e,
             ret |-> edge_record(week_games[1], week, p.ret) \o rest.ret,
             writes |-> p.writes \o rest.writes,
             priors |-> p.priors \o rest.priors]))

find_edges(df, e, season, week) ==
  Then(compute_ratings(df, e, season, ratings_week_of(week)),
    LAMBDA c :
      Then(edges_loop(df, c.e, SelectRows(df, LAMBDA g : g.season = season /\ g.week = week),
                      season, week),
        LAMBDA l :
          [e |-> l.e,
           ret |-> l.ret,
           writes |-> c.writes \o l.writes,
           priors |-> c.priors \o l.priors,
           evals |-> << [week |-> week, ratings_week |-> ratings_week_of(week),
                         edges |-> l.ret] >>]))

(***************************************************************************)
(* backtest: find_edges for week 2 .. max_week, results concatenated.     *)
(***************************************************************************)
season_max_week(df, season) ==
  MaxSet({df[i].week : i \in {j \in DOMAIN df : df[j].season = season}})

RECURSIVE backtest_loop(_, _, _, _, _)
backtest_loop(df, e, season, week, max_week) ==
  IF week > max_week
  THEN [e |-> e, ret |-> <<>>, writes |-> <<>>, priors |-> <<>>, evals |-> <<>>]
  ELSE
    Then(find_edges(df, e, season, week),
      LAMBDA f :
        Then(backtest_loop(df, f.e, season, week + 1, max_week),
          LAMBDA rest :
            [e |-> rest.e,
             ret |-> f.ret \o rest.ret,
             writes |-> f.writes \o rest.writes,
             priors |-> f.priors \o rest.priors,
             evals |-> f.evals \o rest.evals]))

backtest(df, e, season) ==
  backtest_loop(df, e, season, 2, season_max_week(df, season))

(***************************************************************************)
(* QBAdjuster (src/engine/qb_adjustment.py).  build_qb_profiles is        *)
(* modelled from its per-game QB logs on (one row per game and passer,    *)
(* what the groupby of the pass plays yields; total_epa, which nothing    *)
(* reads, is left out).  EPA per play is in 1/10000, so round(x, 4) is    *)
(* the rounding of every quotient.  Passer ids are numbers, ordered as    *)
(* the groupby orders its keys.                                           *)
(***************************************************************************)
qb_min_attempts == 30

qb_decay_num == 23
qb_decay_den == 25

Min(a, b) == IF a <= b THEN a ELSE b

QBLog(game_id, season, week, team, passer_id, name, attempts, epa) ==
  [game_id |-> game_id, season |-> season, week |-> week, team |-> team,
   passer_player_id |-> passer_id, passer_player_name |-> name,
   attempts |-> attempts, qb_epa_per_play |-> epa]

(* game_group['attempts'].idxmax(): the first row of the (game, team)     *)
(* group with the most attempts                                            *)
is_primary(logs, i) ==
  \A j \in DOMAIN logs :
    (logs[j].game_id = logs[i].game_id /\ logs[j].team = logs[i].team) =>
      /\ logs[j].attempts <= logs[i].attempts
      /\ j < i => logs[j].attempts < logs[i].attempts

(* qb_attempts.idxmax() of group.groupby('passer_player_id')['attempts'].sum(): *)
(* the smallest passer id among those with the largest total               *)
attempts_of(logs, passer_id) ==
  SumSeq(MapSeq(SelectSeq(logs, LAMBDA l : l.passer_player_id = passer_id),
                LAMBDA l : l.attempts))

most_attempts(logs) ==
  LET ids == {logs[i].passer_player_id : i \in DOMAIN logs}
  IN  CHOOSE id \in ids :
        \A other \in ids :
          \/ attempts_of(logs, other) < attempts_of(logs, id)
          \/ attempts_of(logs, other) = attempts_of(logs, id) /\ id <= other

build_qb_profiles(game_logs) ==
  LET seasons == {game_logs[i].season : i \in DOMAIN game_logs}
      keys == {<<game_logs[i].season, game_logs[i].team>> : i \in DOMAIN game_logs}
  IN  [qb_game_logs |->
         [i \in DOMAIN game_logs |->
            [game_id |-> game_logs[i].game_id, season |-> game_logs[i].season,
             week |-> game_logs[i].week, team |-> game_logs[i].team,
             passer_player_id |-> game_logs[i].passer_player_id,
             passer_player_name |-> game_logs[i].passer_player_name,
             attempts |-> game_logs[i].attempts,
             qb_epa_per_play |-> game_logs[i].qb_epa_per_play,
             is_primary |-> is_primary(game_logs, i)]],
       league_avg_epa |->
         [season \in seasons |->
            mean(MapSeq(SelectSeq(game_logs, LAMBDA l : l.season = season),
                        LAMBDA l : l.qb_epa_per_play))],
       team_primary_qbs |->
         [key \in keys |->
            most_attempts(SelectSeq(game_logs,
                            LAMBDA l : l.season = key[1] /\ l.team = key[2]))]]

(* self.league_avg_epa.get(season, 0) *)
league_avg_epa_get(adj, season) ==
  IF season \in DOMAIN adj.league_avg_epa THEN adj.league_avg_epa[season] ELSE 0

(* decay ** weeks_ago per log, times qb_decay_den ** (largest weeks_ago) *)
qb_recency_weights(logs, through_week) ==
  LET ago == [i \in DOMAIN logs |-> through_week - logs[i].week]
      k == MaxOf(ago)
  IN  [i \in DOMAIN logs |-> Pow(qb_decay_num, ago[i]) * Pow(qb_decay_den, k - ago[i])]

(* get_qb_epa: (epa_per_play, total_attempts, is_reliable) *)
get_qb_epa(adj, passer_id, season, through_week) ==
  LET logs == sort_values(
                SelectSeq(adj.qb_game_logs,
                  LAMBDA l : /\ l.passer_player_id = passer_id
                             /\ l.season = season
                             /\ l.week <= through_week
                             /\ l.is_primary), "week")
      prev_logs == SelectSeq(adj.qb_game_logs,
                     LAMBDA l : /\ l.passer_player_id = passer_id
                                /\ l.season = season - 1
                                /\ l.is_primary)
  IN  IF Len(logs) = 0
      THEN IF Len(prev_logs) > 0
           THEN [epa |-> round_div(mean(MapSeq(prev_logs, LAMBDA l : l.qb_epa_per_play))
                                   + league_avg_epa_get(adj, season - 1), 2),
                 attempts |-> SumSeq(MapSeq(prev_logs, LAMBDA l : l.attempts)),
                 reliable |-> FALSE]
           ELSE [epa |-> league_avg_epa_get(adj, season), attempts |-> 0,
                 reliable |-> FALSE]
      ELSE
        LET epa == average(MapSeq(logs, LAMBDA l : l.qb_epa_per_play),
                           qb_recency_weights(logs, through_week))
            total_attempts == SumSeq(MapSeq(logs, LAMBDA l : l.attempts))
            full == qb_min_attempts * 3
            reliability == Min(full, total_attempts)
        IN  [epa |-> round_div(epa * reliability
                               + league_avg_epa_get(adj, season) * (full - reliability),
                               full),
             attempts |-> total_attempts,
             reliable |-> total_attempts >= qb_min_attempts]

(* _get_primary_qb_through_week: (passer_player_id, passer_player_name) *)
_get_primary_qb_through_week(adj, team, season, through_week) ==
  LET logs == SelectSeq(adj.qb_game_logs,
                LAMBDA l : l.team = team /\ l.season = season /\ l.week <= through_week)
  IN  IF Len(logs) = 0 THEN None
      ELSE LET primary_id == most_attempts(logs)
           IN  Some([id |-> primary_id,
                     name |-> SelectSeq(logs,
                                LAMBDA l : l.passer_player_id = primary_id)[1].passer_player_name])

unknown_qb_adjustment(current_qb) ==
  [adjustment |-> 0, current_qb |-> current_qb, primary_qb |-> "Unknown",
   qb_changed |-> FALSE, current_qb_epa |-> 0, primary_qb_epa |-> 0]

get_team_qb_adjustment(adj, team, season, through_week) ==
  LET recent_logs == SelectSeq(adj.qb_game_logs,
                       LAMBDA l : /\ l.team = team /\ l.season = season
                                  /\ l.week <= through_week /\ l.is_primary)
  IN  IF Len(recent_logs) = 0 THEN unknown_qb_adjustment("Unknown")
      ELSE
        LET latest == CHOOSE l \in Range(recent_logs) :
                        \A m \in Range(recent_logs) : m.week <= l.week
            primary_qb == _get_primary_qb_through_week(adj, team, season, through_week)
        IN  IF primary_qb = None THEN unknown_qb_adjustment(latest.passer_player_name)
            ELSE
              LET current == get_qb_epa(adj, latest.passer_player_id, season, through_week)
                  primary == get_qb_epa(adj, primary_qb[1].id, season, through_week)
                  qb_changed == latest.passer_player_id # primary_qb[1].id
                  full == qb_min_attempts * 2
              IN  [adjustment |->
                     IF qb_changed
                     THEN round_div((current.epa - primary.epa) * Min(full, current.attempts),
                                    full)
                     ELSE 0,
                   current_qb |-> latest.passer_player_name,
                   primary_qb |-> primary_qb[1].name,
                   qb_changed |-> qb_changed,
                   current_qb_epa |-> current.epa,
                   primary_qb_epa |-> primary.epa]

(***************************************************************************)
(* The QB game logs: two seasons of teams A and B through week 2 (in week *)
(* 2 of season 2 team A's starter q1 leaves early and q2 takes over),     *)
(* and one drawn log of week 3 of season 2, or none.                      *)
(***************************************************************************)
QBLogsThroughWeek2 ==
  << QBLog(101, 1, 1, "A", 1, "q1", 32, 1200),
     QBLog(101, 1, 1, "B", 3, "q3", 30, 300),
     QBLog(102, 1, 2, "A", 1, "q1", 35, 900),
     QBLog(102, 1, 2, "B", 3, "q3", 33, -200),
     QBLog(201, 2, 1, "A", 1, "q1", 30, 1500),
     QBLog(201, 2, 1, "B", 3, "q3", 34, 600),
     QBLog(202, 2, 2, "A", 1, "q1", 4, 200),
     QBLog(202, 2, 2, "A", 2, "q2", 25, -800),
     QBLog(202, 2, 2, "B", 3, "q3", 31, 100) >>

(***************************************************************************)
(* A call of backtest with keyword arguments, as backtest_qb.py makes it: *)
(* engine.backtest(season, qb_adjuster=adjuster).  The method is declared *)
(* backtest(self, season); a keyword that names no parameter raises       *)
(* TypeError before the body runs.                                        *)
(***************************************************************************)
backtest_parameters == {"season"}

TypeError == "TypeError"

call_backtest(df, e, season, kwargs) ==
  IF \E keyword \in DOMAIN kwargs : keyword \notin backtest_parameters
  THEN [e |-> e, ret |-> TypeError, writes |-> <<>>, priors |-> <<>>, evals |-> <<>>]
  ELSE backtest(df, e, season)

(* the adjusters backtest_qb.py passes: None, and the QBAdjuster built *)
QBAdjusterArguments == {None, Some(build_qb_profiles(QBLogsThroughWeek2))}

(***************************************************************************)
(* The engine as a state machine.                                          *)
(***************************************************************************)
(* engine calls made after load_data, at most *)
MaxOps == 3

Seasons == {InputGames[i].season : i \in DOMAIN InputGames}
Weeks == {InputGames[i].week : i \in DOMAIN InputGames}
Teams == {InputGames[i].home_team : i \in DOMAIN InputGames}
           \cup {InputGames[i].away_team : i \in DOMAIN InputGames}

(* the matchups asked of predict_spread: two rated teams, a team without *)
(* games yet (D), a team that hosts no game of season 1 (E)               *)
(* and a team of no game at all (F)                                       *)
Matchups == {<<"A", "B">>, <<"D", "A">>, <<"C", "E">>, <<"E", "B">>, <<"A", "F">>}

engine == [ratings |-> ratings, power_ratings |-> power_ratings,
           league_averages |-> league_averages]

df_loaded == games_df[1]

NoCall == [op |-> "none", args |-> <<>>, ret |-> <<>>,
           writes |-> <<>>, priors |-> <<>>, evals |-> <<>>]

(* __init__ *)
Init ==
  /\ games_df = None
  /\ ratings = <<>>
  /\ power_ratings = <<>>
  /\ league_averages = <<>>
  /\ qb_adjuster = None
  /\ last = NoCall
  /\ nops = 0

(* the engine state a call leaves, and the record of the call *)
Effect(r, op, args, evals) ==
  /\ ratings' = r.e.ratings
  /\ power_ratings' = r.e.power_ratings
  /\ league_averages' = r.e.league_averages
  /\ last' = [op |-> op, args |-> args, ret |-> r.ret,
              writes |-> r.writes, priors |-> r.priors, evals |-> evals]
  /\ nops' = nops + 1
  /\ UNCHANGED <<games_df, qb_adjuster>>

load_data ==
  /\ games_df = None
  /\ games_df' = Some(LoadedGames)
  /\ last' = [NoCall EXCEPT !.op = "load_data"]
  /\ UNCHANGED <<ratings, power_ratings, league_averages, qb_adjuster, nops>>

Ready == games_df # None /\ nops < MaxOps

ComputeRatings ==
  /\ Ready
  /\ \E season \in Seasons, through_week \in Weeks :
       \E r \in {compute_ratings(df_loaded, engine, season, through_week)} :
         Effect(r, "compute_ratings", <<season, through_week>>, <<>>)

PredictSpread ==
  /\ Ready
  /\ \E m \in Matchups, season \in Seasons, through_week \in Weeks :
       \E r \in {predict_spread(df_loaded, engine, m[1], m[2], season, through_week)} :
         Effect(r, "predict_spread", <<m[1], m[2], season, through_week>>, <<>>)

FindEdges ==
  /\ Ready
  /\ \E season \in Seasons, week \in Weeks :
       \E r \in {find_edges(df_loaded, engine, season, week)} :
         Effect(r, "find_edges", <<season, week>>, r.evals)

Backtest ==
  /\ Ready
  /\ \E season \in Seasons :
       \E r \in {backtest(df_loaded, engine, season)} :
         Effect(r, "backtest", <<season>>, r.evals)

BacktestWithQBAdjuster ==
  /\ Ready
  /\ \E season \in Seasons, adjuster \in QBAdjusterArguments :
       \E r \in {call_backtest(df_loaded, engine, season, [qb_adjuster |-> adjuster])} :
         Effect(r, "backtest_qb_adjuster", <<season, adjuster>>, r.evals)

Next ==
  \/ load_data
  \/ ComputeRatings
  \/ PredictSpread
  \/ FindEdges
  \/ Backtest
  \/ BacktestWithQBAdjuster

Spec == Init /\ [][Next]_vars

(***************************************************************************)
(* C1.  Two calls compute_ratings(season, through_week) with the same     *)
(* arguments return identical maps, whatever is executed between them.    *)
(* power_ratings[season][through_week] holds what the previous call for   *)
(* the key returned, so the claim is: a compute_ratings call for a key    *)
(* computed before returns the map held at the key.                        *)
(***************************************************************************)
C1_SameArgumentsSameRatings ==
  [][\A season \in Seasons, through_week \in Weeks :
       (/\ last'.op = "compute_ratings"
        /\ last'.args = <<season, through_week>>
        /\ HasKey(power_ratings, season, through_week))
       => last'.ret = power_ratings[season][through_week]]_vars

(***************************************************************************)
(* C2.  Whenever compute_ratings blends with a prior, the prior is the    *)
(* previous season's snapshot of that season's last week.                  *)
(***************************************************************************)
C2_PriorIsSeasonEnd ==
  \A i \in DOMAIN last.priors :
    LET season == last.priors[i][1]
        through_week == last.priors[i][2]
        prior_read == last.priors[i][3]
    IN  (prior_read # 0 /\ through_week < prior_zero_weight_week)
        => prior_read = season_max_week(df_loaded, season - 1)

(***************************************************************************)
(* C3.  The cache is read-through and write-once: a call writes a key     *)
(* only when the key is absent, and no key is written twice.              *)
(***************************************************************************)
C3_WriteOnce ==
  [][\A i \in DOMAIN last'.writes :
       /\ ~HasKey(ratings, last'.writes[i][1], last'.writes[i][2])
       /\ ~HasKey(power_ratings, last'.writes[i][1], last'.writes[i][2])
       /\ \A j \in DOMAIN last'.writes : j # i => last'.writes[j] # last'.writes[i]]_vars

(***************************************************************************)
(* C4.  A snapshot stored at a (season, through_week) key never changes.  *)
(***************************************************************************)
C4_SnapshotsImmutable ==
  [][\A season \in Seasons, through_week \in Weeks :
       /\ HasKey(ratings, season, through_week)
          => ratings'[season][through_week] = ratings[season][through_week]
       /\ HasKey(power_ratings, season, through_week)
          => power_ratings'[season][through_week] = power_ratings[season][through_week]]_vars

(***************************************************************************)
(* A table that differs from df in every figure (EPA, turnovers, plays,   *)
(* result, market line) of the games of the season with week >= week, and *)
(* in nothing else: the schedule (teams, weeks, ids) is kept.             *)
(***************************************************************************)
OtherFigures(g) ==
  [g EXCEPT !.result = g.result + 5,
            !.spread_line = IF g.spread_line = NaN THEN Some(150) ELSE NaN,
            !.home_off_epa_per_play = 1111 - g.home_off_epa_per_play,
            !.home_def_epa_per_play = g.home_def_epa_per_play - 777,
            !.away_off_epa_per_play = g.away_off_epa_per_play + 555,
            !.away_def_epa_per_play = 333 - g.away_def_epa_per_play,
            !.home_turnovers = g.home_turnovers + 2,
            !.away_turnovers = g.away_turnovers + 1,
            !.home_st_epa_per_play = g.home_st_epa_per_play + 222,
            !.away_st_epa_per_play = g.away_st_epa_per_play - 111,
            !.home_plays = g.home_plays + 9,
            !.away_plays = g.away_plays + 4]

WithOtherLaterGames(df, season, week) ==
  [i \in DOMAIN df |->
     IF df[i].season = season /\ df[i].week >= week THEN OtherFigures(df[i]) ELSE df[i]]

(* The snapshot cached at (season, ratings_week) is the one the engine    *)
(* computes when the figures of the games of week >= week are different.  *)
SnapshotIgnoresGamesFrom(season, ratings_week, week) ==
  /\ HasKey(ratings, season, ratings_week)
  /\ HasKey(power_ratings, season, ratings_week)
  /\ LET c == computed(WithOtherLaterGames(df_loaded, season, week), ratings,
                       season, ratings_week)
     IN  /\ ratings[season][ratings_week] = c.blended
         /\ power_ratings[season][ratings_week] = c.team_powers

GameOf(game_id) == CHOOSE g \in Range(df_loaded) : g.game_id = game_id

(* the prediction the cached snapshot at (season, ratings_week) gives *)
CachedPrediction(g, season, ratings_week) ==
  predict_spread(df_loaded, engine, g.home_team, g.away_team, season, ratings_week).ret

RECURSIVE FlattenEdges(_)
FlattenEdges(evals) ==
  IF evals = <<>> THEN <<>> ELSE evals[1].edges \o FlattenEdges(Tail(evals))

C6_NoSameWeekInformation ==
  last.op = "find_edges" =>
    \A i \in DOMAIN last.evals :
      LET ev == last.evals[i]
      IN  /\ ev.ratings_week = Max(1, ev.week - 1)
          /\ ev.ratings_week < ev.week
          /\ SnapshotIgnoresGamesFrom(last.args[1], ev.ratings_week, ev.week)

(***************************************************************************)
(* C7.  find_edges(season, week) returns exactly one record for a game    *)
(* if and only if the game is of that season and week, has a market line, *)
(* both teams have a prediction and |predicted - market| >= the           *)
(* threshold; the recorded edge is |predicted - market| and is never      *)
(* below the threshold.                                                    *)
(***************************************************************************)
C7_FlaggedIffEdgeAtLeastThreshold ==
  last.op = "find_edges" =>
    LET season == last.args[1]
        week == last.args[2]
        snapshot == power_ratings[season][ratings_week_of(week)]
    IN  /\ \A g \in Range(df_loaded) :
             LET p == CachedPrediction(g, season, ratings_week_of(week))
                 records == {j \in DOMAIN last.ret : last.ret[j].game_id = g.game_id}
                 claimed == /\ g.season = season
                            /\ g.week = week
                            /\ g.spread_line # NaN
                            /\ g.home_team \in DOMAIN snapshot
                            /\ g.away_team \in DOMAIN snapshot
                            /\ Abs(p[1] - g.spread_line[1]) >= min_edge_threshold
             IN  Cardinality(records) = IF claimed THEN 1 ELSE 0
        /\ \A j \in DOMAIN last.ret :
             LET rec == last.ret[j]
                 g == GameOf(rec.game_id)
             IN  /\ Some(rec.model_spread) = CachedPrediction(g, season, ratings_week_of(week))
                 /\ Some(rec.market_spread) = g.spread_line
                 /\ rec.edge = Abs(rec.model_spread - rec.market_spread)
                 /\ rec.edge >= min_edge_threshold

(* a week with a game flagged at exactly the threshold and a game left out *)
C7_Witness ==
  /\ last.op = "find_edges"
  /\ \E j \in DOMAIN last.ret : last.ret[j].edge = min_edge_threshold
  /\ \E g \in Range(df_loaded) :
       /\ g.season = last.args[1] /\ g.week = last.args[2]
       /\ \A j \in DOMAIN last.ret : last.ret[j].game_id # g.game_id

(***************************************************************************)
(* The grading of one game (the body of find_edges' loop) on drawn        *)
(* inputs: a prediction, a market line and a result.                       *)
(***************************************************************************)
(* predictions and market lines lie within +- MaxSpread points *)
MaxSpread == 8
(* results lie within +- MaxResult points *)
MaxResult == 10

HalfPoints == {k * (Cents \div 2) : k \in (-2 * MaxSpread)..(2 * MaxSpread)}

DrawnGame(market, result) ==
  Row(1, 1, 2, "H", "W", result, market, 0, 0, 0, 0, 0, 0, 0, 0, 0, 0)

GradeGame ==
  /\ last = NoCall
  /\ \E predicted \in {None} \cup {Some(x) : x \in HalfPoints},
        market \in {NaN} \cup {Some(x) : x \in HalfPoints},
        result \in (-MaxResult)..MaxResult :
       last' = [NoCall EXCEPT !.op = "edge_record",
                              !.args = <<predicted, market, result>>,
                              !.ret = edge_record(DrawnGame(market, result), 2, predicted)]
  /\ UNCHANGED <<games_df, ratings, power_ratings, league_averages, qb_adjuster, nops>>

NextEdge == GradeGame

SpecEdge == Init /\ [][NextEdge]_vars

(***************************************************************************)
(* C8.  For a flagged game the bet side is the home team when             *)
(* predicted - market > 0 and the away team otherwise; the outcome is a   *)
(* push iff the result equals the market spread; otherwise a home bet     *)
(* wins iff result > market and loses iff result < market, and an away    *)
(* bet wins iff result < market and loses iff result > market.  Model     *)
(* +7.0, market +2.0, result +10: bet home, win.  Market 3.0, result 3:   *)
(* push.                                                                   *)
(***************************************************************************)
C8_SideAndOutcome ==
  (last.op = "edge_record" /\ last.ret # None) =>
    LET rec == last.ret[1]
        predicted == last.args[1][1]
        market == last.args[2][1]
        result == last.args[3] * Cents
        home == rec.bet_side = rec.home_team
        away == rec.bet_side = rec.away_team
        win == rec.ats_won = Some(TRUE)
        loss == rec.ats_won = Some(FALSE)
        push == rec.ats_won = None
    IN  /\ rec.home_team # rec.away_team
        /\ predicted - market > 0 => home
        /\ ~(predicted - market > 0) => away
        /\ push <=> result = market
        /\ (home /\ ~push) => (win <=> result > market) /\ (loss <=> result < market)
        /\ (away /\ ~push) => (win <=> result < market) /\ (loss <=> result > market)
        /\ (predicted = 700 /\ market = 200 /\ result = 1000) => home /\ win
        /\ (market = 300 /\ result = 300) => push

(* model +7.0, market +2.0, result +10 is flagged: bet home, win *)
C8_Witness ==
  /\ last.op = "edge_record"
  /\ last.args = <<Some(700), Some(200), 10>>
  /\ last.ret # None
  /\ last.ret[1].bet_side = "H"
  /\ last.ret[1].ats_won = Some(TRUE)

(***************************************************************************)
(* C9.  predict_spread(home, away, season, through_week) returns          *)
(* rating[home] - rating[away] + home_field_advantage rounded to the      *)
(* nearest half point (so a multiple of 0.5) when both teams are in the   *)
(* snapshot of the cutoff, and None when either is not.                    *)
(***************************************************************************)
C9_SpreadIsNearestHalfPoint ==
  last.op = "predict_spread" =>
    LET home_team == last.args[1]
        away_team == last.args[2]
        season == last.args[3]
        through_week == last.args[4]
    IN  /\ HasKey(power_ratings, season, through_week)
        /\ LET rating == power_ratings[season][through_week]
           IN  IF home_team \in DOMAIN rating /\ away_team \in DOMAIN rating
               THEN /\ last.ret # None
                    /\ last.ret[1] % (Cents \div 2) = 0
                    /\ 4 * Abs(last.ret[1] - (rating[home_team] - rating[away_team]
                                              + home_field_advantage)) <= Cents
               ELSE last.ret = None

(* a prediction that the rounding moved up to the next half point *)
C9_Witness ==
  /\ last.op = "predict_spread"
  /\ last.ret # None
  /\ LET rating == power_ratings[last.args[3]][last.args[4]]
     IN  last.ret[1] > rating[last.args[1]] - rating[last.args[2]] + home_field_advantage

(***************************************************************************)
(* C10.  If a team has played no game in the season through the cutoff    *)
(* week, predict_spread for any matchup with that team at that cutoff     *)
(* returns None.                                                           *)
(***************************************************************************)
PlayedThrough(team, season, through_week) ==
  \E g \in Range(df_loaded) :
    g.season = season /\ g.week <= through_week /\ team \in {g.home_team, g.away_team}

HostsInSeason(team, season) ==
  \E g \in Range(df_loaded) : g.season = season /\ g.home_team = team

GamesPlayedThrough(team, season, through_week) ==
  Cardinality({g \in Range(df_loaded) :
                 g.season = season /\ g.week <= through_week
                 /\ team \in {g.home_team, g.away_team}})

C11_EveryTeamThatPlayedIsRated ==
  last.op = "compute_ratings" =>
    \A team \in Teams :
      PlayedThrough(team, last.args[1], last.args[2]) =>
        /\ team \in DOMAIN last.ret
        /\ team \in DOMAIN ratings[last.args[1]][last.args[2]]
        /\ ratings[last.args[1]][last.args[2]][team].games_played
             = GamesPlayedThrough(team, last.args[1], last.args[2])

(***************************************************************************)
(* C12.  For every snapshot returned (and stored) by compute_ratings, the *)
(* cross-team mean of the final power ratings is 0 up to the rounding of  *)
(* the ratings: each rating is rounded to two decimals after the mean is  *)
(* subtracted, so the mean of n ratings is at most half a cent from 0,    *)
(* that is 2 * |sum| <= n in cents.                                       *)
(***************************************************************************)
MeanIsZeroUpToRounding(team_powers) ==
  2 * Abs(SumOver(team_powers, DOMAIN team_powers)) <= Cardinality(DOMAIN team_powers)

C12_CenteredAtZero ==
  /\ last.op = "compute_ratings" => MeanIsZeroUpToRounding(last.ret)
  /\ \A season \in DOMAIN power_ratings :
       \A week \in DOMAIN power_ratings[season] :
         MeanIsZeroUpToRounding(power_ratings[season][week])

(* a returned snapshot of non-zero ratings whose sum the rounding leaves *)
(* off zero                                                               *)
C12_Witness ==
  /\ last.op = "compute_ratings"
  /\ \E team \in DOMAIN last.ret : last.ret[team] # 0
  /\ SumOver(last.ret, DOMAIN last.ret) # 0

(***************************************************************************)
(* _blend_preseason_prior as a function of its arguments: the current and *)
(* the prior ratings are drawn from the opponent-adjusted ratings of the  *)
(* table (those of season 2 hold team E, those of season 1 do not), the   *)
(* prior may be None, the week runs past prior_zero_weight_week.          *)
(***************************************************************************)
MaxWeek == 10

RatingSets == {AdjustedOfLoaded[key] : key \in DOMAIN AdjustedOfLoaded}

BlendPreseasonPrior ==
  /\ last = NoCall
  /\ \E current_ratings \in RatingSets,
        prior_ratings \in {None} \cup {Some(rs) : rs \in RatingSets},
        week \in 1..MaxWeek :
       last' = [NoCall EXCEPT
                  !.op = "_blend_preseason_prior",
                  !.args = <<current_ratings, prior_ratings, week>>,
                  !.ret = _blend_preseason_prior(current_ratings, prior_ratings, week)]
  /\ UNCHANGED <<games_df, ratings, power_ratings, league_averages, qb_adjuster, nops>>

(* the weights _blend_preseason_prior computes (lines 194-201) under a    *)
(* configuration with prior_full_weight_week < prior_zero_weight_week, for *)
(* a cutoff week that passes the guard of line 197                        *)
MaxConfigWeek == 6

BlendWeights ==
  /\ last = NoCall
  /\ \E w1 \in 1..MaxConfigWeek, w0 \in 1..MaxConfigWeek, week \in 1..MaxWeek :
       /\ w1 < w0
       /\ week < w0
       /\ last' = [NoCall EXCEPT
                     !.op = "blend_weights",
                     !.args = <<w1, w0, week>>,
                     !.ret = [prior_weight |-> prior_weight(w1, w0, week),
                              current_weight |-> current_weight(w1, w0, week)]]
  /\ UNCHANGED <<games_df, ratings, power_ratings, league_averages, qb_adjuster, nops>>

NextBlend == BlendPreseasonPrior \/ BlendWeights

SpecBlend == Init /\ [][NextBlend]_vars

(***************************************************************************)
(* C13.  The blended rating equals the current rating exactly when the    *)
(* cutoff week is >= prior_zero_weight_week, when there is no prior       *)
(* snapshot, and for a team absent from the prior snapshot; the blended   *)
(* snapshot has exactly the teams of the current snapshot.                *)
(***************************************************************************)
C13_BlendKeepsCurrent ==
  last.op = "_blend_preseason_prior" =>
    LET current_ratings == last.args[1]
        prior_ratings == last.args[2]
        week == last.args[3]
        blended == last.ret
    IN  /\ DOMAIN blended = DOMAIN current_ratings
        /\ (week >= prior_zero_weight_week \/ prior_ratings = None)
             => blended = current_ratings
        /\ prior_ratings # None =>
             \A team \in DOMAIN current_ratings \ DOMAIN prior_ratings[1] :
               blended[team] = current_ratings[team]

(* a blend before prior_zero_weight_week, with a prior that lacks a team  *)
(* of the current snapshot and holds a team the current one lacks, which  *)
(* changes the rating of a team present in both                           *)
C13_Witness ==
  /\ last.op = "_blend_preseason_prior"
  /\ last.args[2] # None
  /\ last.args[3] < prior_zero_weight_week
  /\ DOMAIN last.args[1] \ DOMAIN last.args[2][1] # {}
  /\ \E team \in DOMAIN last.args[1] \ DOMAIN last.args[2][1] :
       last.args[1][team].off_epa # 0
  /\ \E team \in DOMAIN last.args[1] \cap DOMAIN last.args[2][1] :
       last.ret[team] # last.args[1][team]

(* a blend at or after prior_zero_weight_week with a prior at hand *)
C13_WitnessLateWeek ==
  /\ last.op = "_blend_preseason_prior"
  /\ last.args[2] # None
  /\ last.args[3] >= prior_zero_weight_week
  /\ last.ret = last.args[1]

(***************************************************************************)
(* C14.  A game whose market spread is missing (NaN) never appears in the *)
(* output of find_edges (nor of backtest), but still contributes to the   *)
(* ratings: every snapshot a call writes is the one computed from any     *)
(* table that differs only in market spreads (all absent, all present     *)
(* and shifted, present and absent swapped), and it counts the games      *)
(* without a market spread among the games of their teams.                *)
(***************************************************************************)
OtherSpread(g, variant) ==
  [g EXCEPT !.spread_line =
     CASE variant = 1 -> NaN
       [] variant = 2 -> IF g.spread_line = NaN THEN Some(150)
                         ELSE Some(g.spread_line[1] + 350)
       [] OTHER -> IF g.spread_line = NaN THEN Some(-400) ELSE NaN]

WithOtherSpreads(df, variant) == [i \in DOMAIN df |-> OtherSpread(df[i], variant)]

SnapshotIgnoresSpreads(season, through_week) ==
  /\ HasKey(ratings, season, through_week)
  /\ HasKey(power_ratings, season, through_week)
  /\ \A variant \in 1..3 :
       LET c == computed(WithOtherSpreads(df_loaded, variant), ratings,
                         season, through_week)
       IN  /\ ratings[season][through_week] = c.blended
           /\ power_ratings[season][through_week] = c.team_powers

SnapshotCountsGamesWithoutSpread(season, through_week) ==
  \A g \in Range(df_loaded) :
    (g.season = season /\ g.week <= through_week /\ g.spread_line = NaN) =>
      \A team \in {g.home_team, g.away_team} \cap DOMAIN ratings[season][through_week] :
        ratings[season][through_week][team].games_played
          = GamesPlayedThrough(team, season, through_week)

C14_MissingSpreadSkippedButRated ==
  /\ last.op \in {"find_edges", "backtest"} =>
       \A i \in DOMAIN last.ret :
         /\ GameOf(last.ret[i].game_id).spread_line # NaN
         /\ GameOf(last.ret[i].game_id).spread_line = Some(last.ret[i].market_spread)
  /\ last.op \in {"compute_ratings", "find_edges", "backtest", "predict_spread"} =>
       \A i \in DOMAIN last.writes :
         /\ SnapshotIgnoresSpreads(last.writes[i][1], last.writes[i][2])
         /\ SnapshotCountsGamesWithoutSpread(last.writes[i][1], last.writes[i][2])

(* a backtest that evaluates the week of a game without a market spread, *)
(* has a prediction for it, returns other games, and then computes a     *)
(* snapshot whose cutoff covers that game                                 *)
C14_Witness ==
  /\ last.op = "backtest"
  /\ last.ret # <<>>
  /\ \E g \in Range(df_loaded) :
       /\ g.season = last.args[1]
       /\ g.spread_line = NaN
       /\ \E i \in DOMAIN last.evals :
            /\ last.evals[i].week = g.week
            /\ CachedPrediction(g, g.season, last.evals[i].ratings_week) # None
       /\ \E i \in DOMAIN last.writes :
            /\ last.writes[i][1] = g.season
            /\ last.writes[i][2] >= g.week
            /\ g.home_team \in DOMAIN ratings[g.season][last.writes[i][2]]
       /\ \A i \in DOMAIN last.ret : last.ret[i].game_id # g.game_id

(***************************************************************************)
(* The trend filter.  backtest_trending.py builds the engine with         *)
(* config['use_trend_filter'] = True and a trend_decline_threshold; the   *)
(* engine's find_edges reads neither key.  The trend of a bet is the one  *)
(* backtest_5season.py measures: the bet-side team's power rating at the  *)
(* ratings week minus its rating four weeks of ratings earlier            *)
(* (max(1, ratings_week - 4)), a team without a rating counting as 0; it  *)
(* is measured only when both snapshots are in the cache.                 *)
(***************************************************************************)
use_trend_filter == TRUE

trend_decline_threshold == -50

trend_window == 4

rating_or_zero(snapshot, team) == IF team \in DOMAIN snapshot THEN snapshot[team] ELSE 0

rating_trend(pr, season, week, bet_team) ==
  LET ratings_week == Max(1, week - 1)
      earlier_week == Max(1, ratings_week - trend_window)
  IN  IF HasKey(pr, season, ratings_week) /\ HasKey(pr, season, earlier_week)
      THEN Some(rating_or_zero(pr[season][ratings_week], bet_team)
                - rating_or_zero(pr[season][earlier_week], bet_team))
      ELSE None

(***************************************************************************)
(* C15.  With use_trend_filter enabled, no bet returned by find_edges or  *)
(* backtest is on a team whose rating has declined by more than           *)
(* trend_decline_threshold over the prior 4 weeks of ratings history.     *)
(***************************************************************************)
C15_TrendFilterSuppresses ==
  (use_trend_filter /\ last.op \in {"find_edges", "backtest"}) =>
    \A i \in DOMAIN last.ret :
      LET trend == rating_trend(power_ratings, GameOf(last.ret[i].game_id).season,
                                last.ret[i].week, last.ret[i].bet_side)
      IN  trend # None => trend[1] >= trend_decline_threshold

MaxQBWeek == 3

Week3Logs ==
  {<<>>} \cup
  {<< QBLog(203, 2, MaxQBWeek, "A", passer[1], passer[2], attempts, epa) >> :
     passer \in {<<1, "q1">>, <<2, "q2">>}, attempts \in {20, 40},
     epa \in {-1500, 500, 2500}}

BuildQBProfiles ==
  /\ qb_adjuster = None
  /\ \E later \in Week3Logs :
       qb_adjuster' = Some(build_qb_profiles(QBLogsThroughWeek2 \o later))
  /\ last' = [NoCall EXCEPT !.op = "build_qb_profiles"]
  /\ UNCHANGED <<games_df, ratings, power_ratings, league_averages, nops>>

GetTeamQBAdjustment ==
  /\ qb_adjuster # None
  /\ \E team \in {"A", "B", "F"}, season \in {1, 2}, through_week \in 1..MaxQBWeek :
       last' = [NoCall EXCEPT
                  !.op = "get_team_qb_adjustment",
                  !.args = <<team, season, through_week>>,
                  !.ret = get_team_qb_adjustment(qb_adjuster[1], team, season, through_week)]
  /\ UNCHANGED <<games_df, ratings, power_ratings, league_averages, qb_adjuster, nops>>

NextQB == BuildQBProfiles \/ GetTeamQBAdjustment

SpecQB == Init /\ [][NextQB]_vars

(***************************************************************************)
(* C17.  get_team_qb_adjustment(team, season, through_week) uses no       *)
(* future data: what it returns (adjustment, QB identities, EPA values)   *)
(* is the same for any two sets of QB game logs that agree on the logs of *)
(* earlier seasons and on the logs of the season with week <=             *)
(* through_week.  Stated against the one set all such sets agree with:    *)
(* the logs known at the cutoff.                                          *)
(***************************************************************************)
LogsKnownAt(logs, season, through_week) ==
  SelectSeq(logs, LAMBDA l : l.season < season
                             \/ (l.season = season /\ l.week <= through_week))

C17_NoFutureQBData ==
  last.op = "get_team_qb_adjustment" =>
    last.ret = get_team_qb_adjustment(
                 build_qb_profiles(LogsKnownAt(qb_adjuster[1].qb_game_logs,
                                               last.args[2], last.args[3])),
                 last.args[1], last.args[2], last.args[3])

(***************************************************************************)
(* C16.  backtest(season, qb_adjuster=adjuster) runs the backtest, and    *)
(* every snapshot it computes holds, for each team, the offensive EPA of  *)
(* the plain computation plus the adjuster's adjustment for (team,        *)
(* season, through_week); with no adjuster (None) the ratings are those   *)
(* of the plain computation.                                              *)
(***************************************************************************)
qb_adjustment_of(adjuster, team, season, through_week) ==
  IF adjuster = None THEN 0
  ELSE get_team_qb_adjustment(adjuster[1], team, season, through_week).adjustment

C16_QBAdjustmentAdded ==
  last.op = "backtest_qb_adjuster" =>
    /\ last.ret # TypeError
    /\ Len(last.writes) = season_max_week(df_loaded, last.args[1]) - 1
    /\ \A i \in DOMAIN last.writes :
         LET season == last.writes[i][1]
             through_week == last.writes[i][2]
             plain == computed(df_loaded, ratings, season, through_week).blended
         IN  \A team \in DOMAIN plain :
               ratings[season][through_week][team].off_epa
                 = plain[team].off_epa
                   + qb_adjustment_of(last.args[2], team, season, through_week)

(***************************************************************************)
(* _opponent_adjust as a function of its argument and of the order of the *)
(* teams.  raw_ratings is drawn from the raw ratings of the table, kept   *)
(* whole or restricted to some of its teams (the opponents left out are   *)
(* then not in the rating set, as team E is not in season 1); the teams   *)
(* are processed in any order of the keys.                                *)
(***************************************************************************)
RawOfLoaded ==
  [key \in DOMAIN AdjustedOfLoaded |-> _compute_raw_ratings(LoadedGames, key[1], key[2])]

Restrict(f, S) == [x \in S |-> f[x]]

Orders(S) == {s \in [1..Cardinality(S) -> S] : Range(s) = S}

OpponentAdjust ==
  /\ last = NoCall
  /\ \E key \in DOMAIN RawOfLoaded :
       \E kept \in SUBSET (DOMAIN RawOfLoaded[key]) \ {{}} :
         \E teams \in Orders(kept) :
           \E iterates \in {adjust_iterates(Restrict(RawOfLoaded[key], kept), teams,
                                            Restrict(RawOfLoaded[key], kept),
                                            opponent_adj_iterations)} :
             last' = [NoCall EXCEPT
                        !.op = "_opponent_adjust",
                        !.args = <<Restrict(RawOfLoaded[key], kept), teams, key>>,
                        !.ret = iterates[Len(iterates)],
                        !.evals = iterates]
  /\ UNCHANGED <<games_df, ratings, power_ratings, league_averages, qb_adjuster, nops>>

NextAdjust == OpponentAdjust

SpecAdjust == Init /\ [][NextAdjust]_vars

(***************************************************************************)
(* C18.  After opponent_adj_iterations iterations the adjusted ratings    *)
(* are a fixed point of the update step: one more iteration changes no    *)
(* team's offensive or defensive EPA by more than a tolerance (0.001 EPA  *)
(* per play), for the raw ratings of every season and cutoff of the       *)
(* table.                                                                  *)
(***************************************************************************)
tolerance == Scale \div 1000

C18_FixedPointAfterIterations ==
  (last.op = "_opponent_adjust" /\ last.args[1] = RawOfLoaded[last.args[3]]) =>
    LET once_more == adjust_step(last.args[1], last.ret)
    IN  \A team \in DOMAIN last.ret :
          /\ Abs(once_more[team].off_epa - last.ret[team].off_epa) <= tolerance
          /\ Abs(once_more[team].def_epa - last.ret[team].def_epa) <= tolerance

(***************************************************************************)
(* C19.  In every iteration each team's new offensive EPA is its raw      *)
(* offensive EPA minus the mean of its opponents' defensive EPA of the    *)
(* previous iteration, and its new defensive EPA its raw defensive EPA    *)
(* plus the mean of its opponents' offensive EPA of the previous          *)
(* iteration (the first iteration reads the raw ratings); nothing written *)
(* in an iteration is read in it, so the result is the same for every     *)
(* order of the teams: it is the order-free _opponent_adjust.             *)
(***************************************************************************)
RatedOpponents(rated, raw_ratings, team) ==
  SelectSeq(raw_ratings[team].opponents, LAMBDA opp : opp \in DOMAIN rated)

C19_ReadsPreviousIteration ==
  last.op = "_opponent_adjust" =>
    LET raw_ratings == last.args[1]
        iterates == last.evals
    IN  /\ Len(iterates) = opponent_adj_iterations + 1
        /\ iterates[1] = raw_ratings
        /\ \A k \in 1..opponent_adj_iterations :
             \A team \in DOMAIN raw_ratings :
               LET previous == iterates[k]
                   opps == RatedOpponents(previous, raw_ratings, team)
                   mean_def == IF opps = <<>> THEN 0
                               ELSE mean([i \in DOMAIN opps |-> previous[opps[i]].def_epa])
                   mean_off == IF opps = <<>> THEN 0
                               ELSE mean([i \in DOMAIN opps |-> previous[opps[i]].off_epa])
               IN  IF raw_ratings[team].opponents = <<>>
                   THEN iterates[k + 1][team] = raw_ratings[team]
                   ELSE /\ iterates[k + 1][team].off_epa
                             = raw_ratings[team].off_epa - mean_def
                        /\ iterates[k + 1][team].def_epa
                             = raw_ratings[team].def_epa + mean_off
        /\ last.ret = _opponent_adjust(raw_ratings)

(* an adjustment of three teams or more in which a team is processed      *)
(* after an opponent of its own whose rating the iteration has changed    *)
C19_Witness ==
  /\ last.op = "_opponent_adjust"
  /\ Len(last.args[2]) >= 3
  /\ \E i, j \in DOMAIN last.args[2] :
       /\ i < j
       /\ last.args[2][i] \in Range(last.args[1][last.args[2][j]].opponents)
       /\ last.evals[2][last.args[2][i]] # last.evals[1][last.args[2][i]]
       /\ last.evals[3][last.args[2][i]] # last.evals[2][last.args[2][i]]

(***************************************************************************)
(* C20.  An opponent that is not in the rating set is skipped when        *)
(* averaging: the adjustment returns ratings for every team (no error),   *)
(* and the mean subtracted or added is the sum over the rated opponents   *)
(* divided by their number, whatever part of a team's opponents is        *)
(* missing; an unrated opponent adds no term, not even a zero.            *)
(***************************************************************************)
C20_AbsentOpponentsSkipped ==
  last.op = "_opponent_adjust" =>
    LET raw_ratings == last.args[1]
        iterates == last.evals
    IN  /\ DOMAIN last.ret = DOMAIN raw_ratings
        /\ \A k \in 1..opponent_adj_iterations :
             \A team \in DOMAIN raw_ratings :
               LET opps == RatedOpponents(iterates[k], raw_ratings, team)
                   number == Len(opps)
                   total_def == SumSeq([i \in DOMAIN opps |-> iterates[k][opps[i]].def_epa])
                   total_off == SumSeq([i \in DOMAIN opps |-> iterates[k][opps[i]].off_epa])
               IN  number > 0 =>
                     /\ raw_ratings[team].off_epa - iterates[k + 1][team].off_epa
                          = round_div(total_def, number)
                     /\ iterates[k + 1][team].def_epa - raw_ratings[team].def_epa
                          = round_div(total_off, number)

(* a team with a rated and an unrated opponent, for which a zero term     *)
(* would change the mean                                                  *)
C20_Witness ==
  /\ last.op = "_opponent_adjust"
  /\ \E team \in DOMAIN last.args[1] :
       LET opps == RatedOpponents(last.args[1], last.args[1], team)
           every == last.args[1][team].opponents
           total_def == SumSeq([i \in DOMAIN opps |-> last.args[1][opps[i]].def_epa])
       IN  /\ Len(opps) > 0
           /\ Len(opps) < Len(every)
           /\ round_div(total_def, Len(opps)) # round_div(total_def, Len(every))
           /\ last.args[1][team].off_epa - last.evals[2][team].off_epa
                = round_div(total_def, Len(opps))

(***************************************************************************)
(* C21.  A team without a game through the cutoff has the all-zero raw    *)
(* rating with an empty opponent list, and the opponent adjustment leaves *)
(* it alone: its rating before the first and after each of the iterations *)
(* is its raw rating.                                                      *)
(***************************************************************************)
GamesOfLoaded(team, season, through_week) ==
  {g \in Range(LoadedGames) :
     g.season = season /\ g.week <= through_week
     /\ team \in {g.home_team, g.away_team}}

C21_NoGamesNoAdjustment ==
  last.op = "_opponent_adjust" =>
    LET raw_ratings == last.args[1]
        key == last.args[3]
    IN  \A team \in DOMAIN raw_ratings :
          GamesOfLoaded(team, key[1], key[2]) = {} =>
            /\ raw_ratings[team].off_epa = 0
            /\ raw_ratings[team].def_epa = 0
            /\ raw_ratings[team].turnover_adj = 0
            /\ raw_ratings[team].st_epa = 0
            /\ raw_ratings[team].games_played = 0
            /\ raw_ratings[team].opponents = <<>>
            /\ \A k \in DOMAIN last.evals : last.evals[k][team] = raw_ratings[team]
            /\ last.ret[team] = raw_ratings[team]

(* a team without games adjusted together with teams whose ratings the    *)
(* iterations change and whose mean EPA is not zero                       *)
C21_Witness ==
  /\ last.op = "_opponent_adjust"
  /\ \E team, other \in DOMAIN last.args[1] :
       /\ GamesOfLoaded(team, last.args[3][1], last.args[3][2]) = {}
       /\ last.ret[team] = zero_rating
       /\ last.ret[other] # last.args[1][other]
       /\ last.evals[2][other] # last.args[1][other]

(***************************************************************************)
(* C22.  The opponent adjustment changes offensive and defensive EPA      *)
(* only: before the first and after each iteration every team's turnover  *)
(* adjustment, special-teams EPA, games-played count and opponent list    *)
(* are those of its raw rating; and the raw ratings passed in are not     *)
(* written: every iteration is the update step applied to the raw ratings *)
(* as they were passed in.                                                 *)
(***************************************************************************)
C22_AdjustsOffenseAndDefenseOnly ==
  last.op = "_opponent_adjust" =>
    LET raw_ratings == last.args[1]
        iterates == last.evals
    IN  /\ \A k \in DOMAIN iterates :
             /\ DOMAIN iterates[k] = DOMAIN raw_ratings
             /\ \A team \in DOMAIN raw_ratings :
                  /\ iterates[k][team].turnover_adj = raw_ratings[team].turnover_adj
                  /\ iterates[k][team].st_epa = raw_ratings[team].st_epa
                  /\ iterates[k][team].games_played = raw_ratings[team].games_played
                  /\ iterates[k][team].opponents = raw_ratings[team].opponents
        /\ \A k \in 1..(Len(iterates) - 1) :
             iterates[k + 1] = adjust_step(raw_ratings, iterates[k])

(* an adjustment that changes the offensive and the defensive EPA of a    *)
(* team whose turnover adjustment and special-teams EPA are not zero      *)
C22_Witness ==
  /\ last.op = "_opponent_adjust"
  /\ \E team \in DOMAIN last.args[1] :
       /\ last.args[1][team].turnover_adj # 0
       /\ last.args[1][team].st_epa # 0
       /\ last.args[1][team].games_played >= 2
       /\ last.ret[team].off_epa # last.args[1][team].off_epa
       /\ last.ret[team].def_epa # last.args[1][team].def_epa
       /\ last.evals[3][team] # last.evals[2][team]

(***************************************************************************)
(* C23.  In every snapshot the engine stores, and in the raw and the      *)
(* opponent-adjusted ratings it was made from, every team's opponents     *)
(* list is as long as its games-played count, and that count is the       *)
(* number of the team's games in the season with week <= the cutoff.      *)
(***************************************************************************)
OpponentsMatchGames(snapshot, season, through_week) ==
  \A team \in DOMAIN snapshot :
    /\ Len(snapshot[team].opponents) = snapshot[team].games_played
    /\ snapshot[team].games_played = GamesPlayedThrough(team, season, through_week)

C23_OpponentsMatchGamesPlayed ==
  \A season \in DOMAIN ratings :
    \A through_week \in DOMAIN ratings[season] :
      /\ OpponentsMatchGames(ratings[season][through_week], season, through_week)
      /\ OpponentsMatchGames(_compute_raw_ratings(df_loaded, season, through_week),
                             season, through_week)
      /\ OpponentsMatchGames(_opponent_adjust(
                               _compute_raw_ratings(df_loaded, season, through_week)),
                             season, through_week)

(* a stored snapshot blended with a prior, with a team that has met the   *)
(* same opponent twice and played at home and away                        *)
C23_Witness ==
  /\ last.op = "compute_ratings"
  /\ \E i \in DOMAIN last.priors : last.priors[i][3] # 0
  /\ \E season \in DOMAIN ratings :
       \E through_week \in DOMAIN ratings[season] :
         \E team \in DOMAIN ratings[season][through_week] :
           LET opponents == ratings[season][through_week][team].opponents
           IN  /\ Len(opponents) >= 2
               /\ Cardinality(Range(opponents)) < Len(opponents)

(***************************************************************************)
(* C24.  For a cutoff week before prior_zero_weight_week (w0) and a team  *)
(* of the prior snapshot, each of offensive EPA, defensive EPA, turnover  *)
(* adjustment and special-teams EPA of the blended rating is              *)
(* (1 - p) * current + p * 0.67 * prior with p = (w0 - week) / (w0 - w1), *)
(* which is 1 at prior_full_weight_week (w1), where the blended value is  *)
(* 0.67 * prior, and goes down by 1 / (w0 - w1) a week to 0 at w0;        *)
(* games played and opponents are those of the current rating.            *)
(***************************************************************************)
Components == {"off_epa", "def_epa", "turnover_adj", "st_epa"}

WeightedWithPrior(current, prior, week) ==
  LET w0 == prior_zero_weight_week
      w1 == prior_full_weight_week
  IN  round_div(((w0 - w1) - (w0 - week)) * current * 100
                + (w0 - week) * prior * prior_regression,
                (w0 - w1) * 100)

C24_BlendFormula ==
  (/\ last.op = "_blend_preseason_prior"
   /\ last.args[2] # None
   /\ last.args[3] < prior_zero_weight_week) =>
    LET current_ratings == last.args[1]
        prior_ratings == last.args[2][1]
        week == last.args[3]
        blended == last.ret
    IN  /\ \A team \in DOMAIN current_ratings \cap DOMAIN prior_ratings :
             /\ \A c \in Components :
                  /\ blended[team][c]
                       = WeightedWithPrior(current_ratings[team][c], prior_ratings[team][c], week)
                  /\ week = prior_full_weight_week =>
                       blended[team][c] = round_div(prior_ratings[team][c] * prior_regression, 100)
             /\ blended[team].games_played = current_ratings[team].games_played
             /\ blended[team].opponents = current_ratings[team].opponents
        /\ prior_weight_num(prior_full_weight_week) = prior_weight_den
        /\ prior_weight_num(prior_zero_weight_week) = 0
        /\ prior_weight_num(week) - prior_weight_num(week + 1) = 1

(* a blend strictly between the two weeks whose result is neither the     *)
(* current rating nor the regressed prior, for a team whose games played  *)
(* and opponents differ between the two snapshots                         *)
C24_Witness ==
  /\ last.op = "_blend_preseason_prior"
  /\ last.args[2] # None
  /\ last.args[3] > prior_full_weight_week
  /\ last.args[3] < prior_zero_weight_week
  /\ \E team \in DOMAIN last.args[1] \cap DOMAIN last.args[2][1] :
       /\ last.ret[team].off_epa # last.args[1][team].off_epa
       /\ last.ret[team].off_epa
            # round_div(last.args[2][1][team].off_epa * prior_regression, 100)
       /\ last.ret[team].off_epa
            = WeightedWithPrior(last.args[1][team].off_epa, last.args[2][1][team].off_epa,
                                last.args[3])
       /\ last.args[1][team].opponents # last.args[2][1][team].opponents
       /\ last.ret[team].opponents = last.args[1][team].opponents

(***************************************************************************)
(* _get_team_games as a function of its arguments, on the loaded table:   *)
(* any team code (one that is in no game included), any season (one       *)
(* without games included) and any cutoff week from 0.                    *)
(***************************************************************************)
MaxCutoff == 5

TeamsAsked == Teams \cup {"F"}

SeasonsAsked == Seasons \cup {MaxSet(Seasons) + 1}

GetTeamGames ==
  /\ last = NoCall
  /\ \E team \in TeamsAsked, season \in SeasonsAsked, through_week \in 0..MaxCutoff :
       last' = [NoCall EXCEPT
                  !.op = "_get_team_games",
                  !.args = <<team, season, through_week>>,
                  !.ret = _get_team_games(LoadedGames, team, season, through_week)]
  /\ UNCHANGED <<games_df, ratings, power_ratings, league_averages, qb_adjuster, nops>>

(* _compute_raw_ratings, lines 111-120: the games of a team of the        *)
(* snapshot and, when there are any, their recency weights                 *)
ApplyRecencyWeights ==
  /\ last = NoCall
  /\ \E season \in Seasons, through_week \in Weeks :
       \E team \in season_teams(LoadedGames, season) :
         \E games \in {_get_team_games(LoadedGames, team, season, through_week)} :
           /\ Len(games) # 0
           /\ last' = [NoCall EXCEPT
                         !.op = "_apply_recency_weights",
                         !.args = <<team, season, through_week>>,
                         !.evals = games,
                         !.ret = _apply_recency_weights(games, through_week)]
  /\ UNCHANGED <<games_df, ratings, power_ratings, league_averages, qb_adjuster, nops>>

NextTeamGames == GetTeamGames \/ ApplyRecencyWeights

SpecTeamGames == Init /\ [][NextTeamGames]_vars

(***************************************************************************)
(* C25.  _get_team_games returns exactly the games of the season with     *)
(* week <= cutoff in which the team is home or away, each once, ordered   *)
(* by non-decreasing week; a home game carries the home-side figures as   *)
(* the team's own and the away side's turnovers as the opponent's, an     *)
(* away game the reverse, and the opponent is the other team; without     *)
(* such a game the result is empty.                                        *)
(***************************************************************************)
LoadedGame(game_id) == CHOOSE g \in Range(LoadedGames) : g.game_id = game_id

C25_TeamGamesContract ==
  last.op = "_get_team_games" =>
    LET team == last.args[1]
        expected == GamesOfLoaded(team, last.args[2], last.args[3])
        games == last.ret
    IN  /\ {games[i].game_id : i \in DOMAIN games} = {g.game_id : g \in expected}
        /\ Len(games) = Cardinality(expected)
        /\ \A i, j \in DOMAIN games : i < j => games[i].week <= games[j].week
        /\ expected = {} => games = <<>>
        /\ \A i \in DOMAIN games :
             LET g == LoadedGame(games[i].game_id)
             IN  /\ games[i].week = g.week
                 /\ IF g.home_team = team
                    THEN /\ games[i].off_epa = g.home_off_epa_per_play
                         /\ games[i].def_epa = g.home_def_epa_per_play
                         /\ games[i].turnovers = g.home_turnovers
                         /\ games[i].opp_turnovers = g.away_turnovers
                         /\ games[i].st_epa = g.home_st_epa_per_play
                         /\ games[i].plays = g.home_plays
                         /\ games[i].opponent = g.away_team
                    ELSE /\ games[i].off_epa = g.away_off_epa_per_play
                         /\ games[i].def_epa = g.away_def_epa_per_play
                         /\ games[i].turnovers = g.away_turnovers
                         /\ games[i].opp_turnovers = g.home_turnovers
                         /\ games[i].st_epa = g.away_st_epa_per_play
                         /\ games[i].plays = g.away_plays
                         /\ games[i].opponent = g.home_team

(* a team with home and away games through the cutoff, an away game       *)
(* before a home game, and turnovers that differ between the two sides    *)
C25_Witness ==
  /\ last.op = "_get_team_games"
  /\ Len(last.ret) >= 3
  /\ \E i, j \in DOMAIN last.ret :
       /\ i < j
       /\ ~last.ret[i].is_home
       /\ last.ret[j].is_home
       /\ last.ret[i].week < last.ret[j].week
       /\ last.ret[i].turnovers # last.ret[i].opp_turnovers
       /\ last.ret[i].opp_turnovers = LoadedGame(last.ret[i].game_id).home_turnovers

RegressedTurnovers(games, through_week, season, column) ==
  LET actual == average([i \in DOMAIN games |-> games[i][column] * Scale],
                        _apply_recency_weights(games, through_week))
      league == _compute_league_averages(LoadedGames, season, through_week)
                  .avg_turnovers_per_game[1]
  IN  round_div(actual * (100 - turnover_regression_factor)
                + league * turnover_regression_factor, 100)

C27_TurnoverAdjustment ==
  last.op = "_opponent_adjust" =>
    LET raw_ratings == last.args[1]
        season == last.args[3][1]
        through_week == last.args[3][2]
    IN  \A team \in DOMAIN raw_ratings :
          LET games == _get_team_games(LoadedGames, team, season, through_week)
              total_plays == SumSeq([i \in DOMAIN games |-> games[i].plays])
              own == RegressedTurnovers(games, through_week, season, "turnovers")
              opp == RegressedTurnovers(games, through_week, season, "opp_turnovers")
          IN  Len(games) >= 1 =>
                raw_ratings[team].turnover_adj
                  = IF total_plays = 0 THEN 0
                    ELSE round_div((opp - own) * 35 * Len(games), 10 * total_plays)

(* raw ratings with a team whose only game has no plays recorded and      *)
(* whose regressed turnovers differ from its opponents', and a team with  *)
(* plays and a turnover adjustment that is not zero                       *)
C27_Witness ==
  /\ last.op = "_opponent_adjust"
  /\ \E team, other \in DOMAIN last.args[1] :
       LET season == last.args[3][1]
           through_week == last.args[3][2]
           games == _get_team_games(LoadedGames, team, season, through_week)
       IN  /\ Len(games) >= 1
           /\ SumSeq([i \in DOMAIN games |-> games[i].plays]) = 0
           /\ RegressedTurnovers(games, through_week, season, "turnovers")
                # RegressedTurnovers(games, through_week, season, "opp_turnovers")
           /\ last.args[1][team].turnover_adj = 0
           /\ last.args[1][other].turnover_adj # 0
           /\ last.args[1][other].games_played >= 2

(***************************************************************************)
(* C28.  The rating cache only grows: after every operation the           *)
(* component-rating map and the power-rating map hold the same (season,   *)
(* through_week) keys, no operation removes a key, and a call             *)
(* compute_ratings(s, w) leaves both maps with the keys they had and the  *)
(* key (s, w), the entries of every other key unchanged.                  *)
(***************************************************************************)
Keys(d) == {key \in Seasons \X Weeks : HasKey(d, key[1], key[2])}

C28_CacheAppendOnly ==
  [][/\ Keys(ratings') = Keys(power_ratings')
     /\ \A season \in DOMAIN ratings' : DOMAIN ratings'[season] \subseteq Weeks
     /\ Keys(ratings) \subseteq Keys(ratings')
     /\ Keys(power_ratings) \subseteq Keys(power_ratings')
     /\ last'.op = "compute_ratings" =>
          /\ Keys(ratings') = Keys(ratings) \cup {<<last'.args[1], last'.args[2]>>}
          /\ \A key \in Keys(ratings) \ {<<last'.args[1], last'.args[2]>>} :
               /\ ratings'[key[1]][key[2]] = ratings[key[1]][key[2]]
               /\ power_ratings'[key[1]][key[2]] = power_ratings[key[1]][key[2]]]_vars

(* compute_ratings called with the cache holding another week of the same *)
(* season and a key of another season                                     *)
C28_Witness ==
  /\ last.op = "compute_ratings"
  /\ Cardinality(Keys(ratings)) >= 3
  /\ \E key \in Keys(ratings) :
       key[1] = last.args[1] /\ key[2] # last.args[2]
  /\ \E key \in Keys(power_ratings) : key[1] # last.args[1]

(***************************************************************************)
(* C29.  Under every configuration with prior_full_weight_week <          *)
(* prior_zero_weight_week and for every cutoff week >= 1 that is blended, *)
(* the prior weight and the current weight (1 - prior weight) are both in *)
(* [0, 1].                                                                 *)
(***************************************************************************)
InUnitInterval(fraction) ==
  /\ fraction.den > 0
  /\ 0 <= fraction.num
  /\ fraction.num <= fraction.den

C29_WeightsInUnitInterval ==
  last.op = "blend_weights" =>
    /\ InUnitInterval(last.ret.prior_weight)
    /\ InUnitInterval(last.ret.current_weight)

(***************************************************************************)
(* print_backtest_summary.  A result row holds ats_won (True, False or    *)
(* None for a push) and the edge in cents.  The call returns None for an  *)
(* empty result set, raises ZeroDivisionError where the code divides the  *)
(* integer profit by total * 110 = 0, and otherwise returns the dict; the *)
(* figures it prints are kept beside the return value.  Percentages are   *)
(* in hundredths of a percent.                                             *)
(***************************************************************************)
ZeroDivisionError == "ZeroDivisionError"

NoFault == "none"

SummaryRow(won, edge) == [ats_won |-> won, edge |-> edge]

(* results[results['ats_won'].notna()] *)
decided_rows(results) == SelectSeq(results, LAMBDA r : r.ats_won # None)

(* decided['ats_won'].sum() *)
sum_ats_won(rows) == Len(SelectSeq(rows, LAMBDA r : r.ats_won = Some(TRUE)))

(* sw / len(subset) * 100 and (sw * 100 - sl * 110) / (len(subset) * 110) * 100 *)
(* for the rows of an edge range that has rows                             *)
edge_range(decided, low, high, label) ==
  LET subset == SelectSeq(decided, LAMBDA r : r.edge >= low /\ r.edge < high)
      sw == sum_ats_won(subset)
      sl == Len(subset) - sw
  IN  IF Len(subset) > 0
      THEN << [label |-> label, bets |-> Len(subset),
               wp |-> round_div(sw * 100 * 100, Len(subset)),
               sub_roi |-> round_div((sw * 100 - sl * 110) * 100 * 100,
                                     Len(subset) * 110)] >>
      ELSE <<>>

print_backtest_summary(results) ==
  IF Len(results) = 0
  THEN [raised |-> NoFault, returned |-> None,
        printed |-> << [message |-> "No edges found in backtest."] >>]
  ELSE
    LET decided == decided_rows(results)
        pushes == Len(results) - Len(decided)
        total == Len(decided)
        wins == sum_ats_won(decided)
        losses == total - wins
        win_pct == IF total > 0 THEN round_div(wins * 100 * 100, total) ELSE 0
        profit == wins * 100 - losses * 110
    IN  IF total * 110 = 0
        THEN [raised |-> ZeroDivisionError, returned |-> None, printed |-> <<>>]
        ELSE LET roi == round_div(profit * 100 * 100, total * 110)
             IN  [raised |-> NoFault,
                  returned |-> Some([total_bets |-> total, wins |-> wins,
                                     losses |-> losses, win_pct |-> win_pct,
                                     roi |-> roi]),
                  printed |-> << [total |-> total, pushes |-> pushes,
                                  wins |-> wins, losses |-> losses,
                                  win_pct |-> win_pct, roi |-> roi,
                                  avg_edge |-> nan_mean([i \in DOMAIN decided |->
                                                           decided[i].edge])] >>
                              \o edge_range(decided, 2 * Cents, 3 * Cents, "2-3 pts")
                              \o edge_range(decided, 3 * Cents, 5 * Cents, "3-5 pts")
                              \o edge_range(decided, 5 * Cents, 99 * Cents, "5+ pts")]

(* result sets of up to MaxRows rows: every mix of wins, losses and       *)
(* pushes, with an edge below and one above 5 points                      *)
MaxRows == 3

SummaryRows == {SummaryRow(won, edge) : won \in {Some(TRUE), Some(FALSE), None},
                                        edge \in {350, 550}}

ResultSets == UNION {[1..n -> SummaryRows] : n \in 0..MaxRows}

PrintBacktestSummary ==
  /\ last = NoCall
  /\ \E results \in ResultSets :
       \E r \in {print_backtest_summary(results)} :
         last' = [NoCall EXCEPT
                    !.op = "print_backtest_summary",
                    !.args = <<results>>,
                    !.ret = [raised |-> r.raised, returned |-> r.returned],
                    !.evals = r.printed]
  /\ UNCHANGED <<games_df, ratings, power_ratings, league_averages, qb_adjuster, nops>>

NextSummary == PrintBacktestSummary

SpecSummary == Init /\ [][NextSummary]_vars

(***************************************************************************)
(* C30.  print_backtest_summary leaves the pushes out of the aggregates:  *)
(* wins and losses are the rows won and lost, wins + losses + pushes is   *)
(* the number of rows, ROI = (wins * 100 - losses * 110) / (total * 110)  *)
(* with total = wins + losses; and the call completes without a fault for *)
(* every result set, the empty one and one of pushes only included.       *)
(***************************************************************************)
RowsWith(results, won) ==
  Cardinality({i \in DOMAIN results : results[i].ats_won = won})

C30_SummaryExcludesPushes ==
  last.op = "print_backtest_summary" =>
    LET results == last.args[1]
        wins == RowsWith(results, Some(TRUE))
        losses == RowsWith(results, Some(FALSE))
        pushes == RowsWith(results, None)
    IN  /\ last.ret.raised = NoFault
        /\ Len(results) > 0 =>
             /\ last.ret.returned # None
             /\ last.ret.returned[1].wins = wins
             /\ last.ret.returned[1].losses = losses
             /\ last.ret.returned[1].total_bets = wins + losses
             /\ last.evals[1].pushes = pushes
             /\ wins + losses + pushes = Len(results)
             /\ wins + losses > 0 =>
                  last.ret.returned[1].roi
                    = round_div((wins * 100 - losses * 110) * 100 * 100,
                                (wins + losses) * 110)

====
